---- MODULE Spec2Model ----
(***************************************************************************)
(* TranscriptionPipeline (core/pipeline.py) over an abstract provider      *)
(* (providers/base.py, providers/azure_batch.py): the in-memory job        *)
(* ledger, the ledger file, submit_single, submit_batch and the poll loop. *)
(***************************************************************************)
EXTENDS Integers, Sequences, FiniteSets, TLC

\* ------------------------------------------------------------------ bounds

\* Number of job ids the provider issues in one behaviour.
MaxJobs == 2

\* Number of directory entries rglob("*") yields for one submit_batch.
MaxFiles == 3

\* ------------------------------------------------------------------ inputs

\* Values of time.time() at submission.
Times == {1}

\* The language argument (default "en-US").
Languages == {"en-US", "de-DE"}

\* Current working directory, the prefix Path.resolve() gives a relative path.
Cwd == "/work/"

\* Directory entries (stem, suffix) that rglob may yield.
Entries ==
    { [stem |-> "a", suffix |-> ".mp4"],
      [stem |-> "b", suffix |-> ".WAV"],
      [stem |-> "n", suffix |-> ".txt"] }

\* The directory arguments given to submit_batch: a relative directory.
DirArgs == { "media/" }

\* The media arguments given to submit_single: relative paths of the files
\* of that directory.
MediaArgs ==
    { [dir |-> d, stem |-> e.stem, suffix |-> e.suffix] : d \in DirArgs, e \in Entries }

\* Status strings a provider may report: those of the provider contract
\* (base.py, lines 49-52) and those of the Azure batch REST API, which
\* AzureBatchProvider.job_status passes through unchanged.
VendorStates == { "running", "succeeded", "failed", "Succeeded", "Failed" }

\* The dictionaries job_status may return: with a "state" key, or without.
StatusReplies ==
    { [state |-> s, raw |-> "data"] : s \in VendorStates } \cup { [raw |-> "data"] }

\* ------------------------------------------------------------- str helpers

\* str.lower() on the strings of the model.
Lower(s) ==
    CASE s = "Succeeded"  -> "succeeded"
      [] s = "Failed"     -> "failed"
      [] s = "Running"    -> "running"
      [] s = "NotStarted" -> "notstarted"
      [] s = ".WAV"       -> ".wav"
      [] OTHER            -> s

\* s.startswith("succ") on the strings of the model.
StartsWithSucc(s) == s \in { "succeeded", "Succeeded" }

\* Whether a directory string is absolute.
IsAbsolute(d) == d \in { Cwd, Cwd \o "media/" }

\* Path.expanduser().resolve() on a directory: a relative one is made absolute.
ResolveDir(d) == IF IsAbsolute(d) THEN d ELSE Cwd \o d

\* Path.resolve() left out: the path is kept as it was given.
resolve_not(p) == p

\* Path.expanduser().resolve() on a file path.
Resolve(p) == [p EXCEPT !.dir = ResolveDir(p.dir)]

\* str(path)
Str(p) == p.dir \o p.stem \o p.suffix

\* dict.get(key, default)
DictGet(d, key, default) == IF key \in DOMAIN d THEN d[key] ELSE default

\* ------------------------------------------------------------------ ledger
\* A ledger is a Python dict in insertion order: a sequence of entries
\* [id, meta] with distinct ids; meta is a dict of fields.

Keys(l) == { l[i].id : i \in DOMAIN l }

Index(l, j) == CHOOSE i \in DOMAIN l : l[i].id = j

Meta(l, j) == l[Index(l, j)].meta

\* l[j] = m with resubmissions deduplicated: a file the ledger already holds
\* gets no second record.
DictSetDedup(l, j, m) ==
    IF \E i \in DOMAIN l : l[i].meta.file = m.file
    THEN l
    ELSE Append(l, [id |-> j, meta |-> m])

\* l[j] = m
DictSet(l, j, m) ==
    IF j \in Keys(l)
    THEN [l EXCEPT ![Index(l, j)].meta = m]
    ELSE Append(l, [id |-> j, meta |-> m])

\* l[j][f] = v
FieldSet(l, j, f, v) ==
    LET m == Meta(l, j)
    IN  DictSet(l, j, [g \in DOMAIN m \cup {f} |-> IF g = f THEN v ELSE m[g]])

\* The ledger file: whether it exists, and its text. It is absent before the
\* first save.
Absent == [exists |-> FALSE, text |-> <<>>]

\* The fields the pipeline itself writes on a record.
KnownFields == { "file", "submitted", "language", "state", "result" }

\* A dump by schema: only the known fields of a record are written.
json_dumps_known_fields(l) ==
    [ i \in DOMAIN l |->
        <<l[i].id, [ f \in DOMAIN l[i].meta \cap KnownFields |-> l[i].meta[f] ]>> ]

\* json.dumps(self._jobs, indent=2): the object as text, a sequence of
\* members <<key, value>> in insertion order.
json_dumps(l) == [ i \in DOMAIN l |-> <<l[i].id, l[i].meta>> ]

\* json.loads(text)
json_loads(t) == [ i \in DOMAIN t |-> [id |-> t[i][1], meta |-> t[i][2]] ]

\* _load_jobs
load_jobs(file) == IF file.exists THEN json_loads(file.text) ELSE <<>>

\* _save_jobs
save_jobs(l) == [exists |-> TRUE, text |-> json_dumps(l)]

\* ------------------------------------------------------------------- state

VARIABLES
    jobs,        \* self._jobs, the in-memory ledger
    disk,        \* the file at job_log_path: Absent or its text
    issued,      \* the provider's side: how many job ids it has issued
    pc,          \* "idle" (no call in progress) or "sweep" (inside poll's loop)
    unfinished,  \* poll's local dict, as the sequence of its keys
    todo,        \* what is left of list(unfinished) in the current sweep
    last,        \* history: what the latest step did (call, provider calls, outcome)
    dropped,     \* history: the jobs some poll has popped from unfinished
    fetched      \* history: the jobs for which fetch_result has returned

vars == <<jobs, disk, issued, pc, unfinished, todo, last, dropped, fetched>>

\* None, the value of a call that raised.
None == "None"

\* ---------------------------------------------------------- submit_single

\* The provider's submit_job: it raises, or returns a job id not issued before.
\* Job ids are the provider's opaque strings; the model numbers them 1, 2, ...
submit_job(n, accept) ==
    IF accept THEN [ok |-> TRUE, id |-> n + 1, issued |-> n + 1]
    ELSE [ok |-> FALSE, id |-> None, issued |-> n]

\* submit_single with the provider's exception swallowed: the file is recorded
\* as failed under a placeholder id and the ledger saved.
submit_single_swallow(st, media0, language, accept, t) ==
    LET media == Resolve(media0)
        r == submit_job(st.issued, accept)
        call == [method |-> "submit_job", path |-> media, language |-> language,
                 ok |-> r.ok, id |-> r.id]
        js == DictSet(st.jobs, IF r.ok THEN r.id ELSE 0,
                      [file |-> Str(media), submitted |-> t, language |-> language,
                       state |-> IF r.ok THEN "submitted" ELSE "failed"])
    IN  [jobs |-> js, disk |-> save_jobs(js), issued |-> r.issued,
         raised |-> FALSE, value |-> r.id, calls |-> <<call>>]

\* submit_single(media, language) from the state st = [jobs, disk, issued];
\* accept is whether provider.submit_job returns, t the value of time.time().
\* The result carries the new state, whether the call raised, its value and
\* the provider calls it made.
submit_single(st, media0, language, accept, t) ==
    LET media == Resolve(media0)
        r == submit_job(st.issued, accept)
        call == [method |-> "submit_job", path |-> media, language |-> language,
                 ok |-> r.ok, id |-> r.id]
    IN  IF ~r.ok
        THEN [jobs |-> st.jobs, disk |-> st.disk, issued |-> r.issued,
              raised |-> TRUE, value |-> None, calls |-> <<call>>]
        ELSE LET js == DictSet(st.jobs, r.id,
                               [file |-> Str(media), submitted |-> t,
                                language |-> language, state |-> "submitted"])
             IN  [jobs |-> js, disk |-> save_jobs(js), issued |-> r.issued,
                  raised |-> FALSE, value |-> r.id, calls |-> <<call>>]

\* ----------------------------------------------------------- submit_batch

\* The literal set of line 58.
SupportedSuffixes == { ".mp4", ".wav", ".mp3", ".mkv", ".flac" }

\* The filter without the set of suffixes: any file with an extension.
is_supported_any_suffix(path) == path.suffix # ""

\* path.suffix.lower() in {...}
is_supported(path) == Lower(path.suffix) \in SupportedSuffixes

\* directory.rglob("*") for a directory holding `listing`: the paths under it.
rglob(directory, listing) ==
    [ i \in DOMAIN listing |->
        [dir |-> directory, stem |-> listing[i].stem, suffix |-> listing[i].suffix] ]

\* The for loop of submit_batch from its i-th path on. acc = [jobs, disk,
\* issued, ret (the list `jobs` of the code), calls, errors (the logged ones),
\* raised]; accept[i] is whether submit_job returns for the i-th path.
RECURSIVE batch_loop(_, _, _, _, _, _)
batch_loop(paths, i, language, accept, t, acc) ==
    IF i > Len(paths) THEN acc
    ELSE IF ~is_supported(paths[i])
    THEN batch_loop(paths, i + 1, language, accept, t, acc)
    ELSE LET r == submit_single(acc, paths[i], language, accept[i], t)
         IN  IF r.raised
             THEN \* except Exception: logger.error(...)
                  batch_loop(paths, i + 1, language, accept, t,
                             [acc EXCEPT !.issued = r.issued,
                                         !.calls = acc.calls \o r.calls,
                                         !.errors = Append(acc.errors, paths[i])])
             ELSE batch_loop(paths, i + 1, language, accept, t,
                             [acc EXCEPT !.jobs = r.jobs, !.disk = r.disk,
                                         !.issued = r.issued,
                                         !.ret = Append(acc.ret, r.value),
                                         !.calls = acc.calls \o r.calls])

\* The for loop without its try/except: the first failure ends the batch
\* with the exception.
RECURSIVE batch_loop_propagate(_, _, _, _, _, _)
batch_loop_propagate(paths, i, language, accept, t, acc) ==
    IF i > Len(paths) THEN acc
    ELSE IF ~is_supported(paths[i])
    THEN batch_loop_propagate(paths, i + 1, language, accept, t, acc)
    ELSE LET r == submit_single(acc, paths[i], language, accept[i], t)
         IN  IF r.raised
             THEN [acc EXCEPT !.issued = r.issued, !.calls = acc.calls \o r.calls,
                              !.raised = TRUE]
             ELSE batch_loop_propagate(paths, i + 1, language, accept, t,
                             [acc EXCEPT !.jobs = r.jobs, !.disk = r.disk,
                                         !.issued = r.issued,
                                         !.ret = Append(acc.ret, r.value),
                                         !.calls = acc.calls \o r.calls])

submit_batch_no_isolation(st, directory0, listing, language, accept, t) ==
    LET directory == ResolveDir(directory0)
    IN  batch_loop_propagate(rglob(directory, listing), 1, language, accept, t,
                   [jobs |-> st.jobs, disk |-> st.disk, issued |-> st.issued,
                    ret |-> <<>>, calls |-> <<>>, errors |-> <<>>, raised |-> FALSE])

\* submit_batch(directory, language) from the state st.
submit_batch(st, directory0, listing, language, accept, t) ==
    LET directory == ResolveDir(directory0)
    IN  batch_loop(rglob(directory, listing), 1, language, accept, t,
                   [jobs |-> st.jobs, disk |-> st.disk, issued |-> st.issued,
                    ret |-> <<>>, calls |-> <<>>, errors |-> <<>>, raised |-> FALSE])

\* ------------------------------------------------------------------- poll

\* The literal set of line 67.
FinishedStates == { "succeeded", "failed" }

\* Line 77 without the vendor casing.
TerminalReportedLower == { "succeeded", "failed" }

\* The literal set of line 77.
TerminalReported == { "Succeeded", "Failed", "succeeded", "failed" }

\* Line 67: the keys of the records whose state is not in FinishedStates.
poll_unfinished(l) ==
    LET keep(e) == DictGet(e.meta, "state", None) \notin FinishedStates
        sel == SelectSeq(l, keep)
    IN  [ i \in DOMAIN sel |-> sel[i].id ]

\* unfinished.pop(job_id)
Pop(u, j) == SelectSeq(u, LAMBDA k : k # j)

\* Path(f"{job_id}_transcript.json"), line 89.
Dest(job_id) == [dir |-> "", stem |-> job_id, suffix |-> "_transcript.json"]

\* _download_result giving up on a job whose download failed: the record is
\* removed from the ledger.
download_result_drop(l, job_id, ok) ==
    IF ok THEN FieldSet(l, job_id, "result", Dest(job_id))
    ELSE SelectSeq(l, LAMBDA e : e.id # job_id)

\* _download_result(job_id): fetch_result returns the path it wrote (ok) or
\* raises, which is caught and logged.
download_result(l, job_id, ok) ==
    IF ok THEN FieldSet(l, job_id, "result", Dest(job_id)) ELSE l

\* Lines 73-81, the body of the for loop for job_id, when job_status
\* returned `status`. st = [jobs, disk, unfinished].
poll_job(st, job_id, status, fetch_ok) ==
    LET state == DictGet(status, "state", "unknown")
        j1 == FieldSet(st.jobs, job_id, "state", state)
        statusCall == [method |-> "job_status", id |-> job_id, ok |-> TRUE,
                       reply |-> status]
    IN  IF state \in TerminalReported
        THEN LET succ == StartsWithSucc(Lower(state))
                 j2 == IF succ THEN download_result(j1, job_id, fetch_ok) ELSE j1
             IN  [jobs |-> j2, disk |-> save_jobs(j2),
                  unfinished |-> Pop(st.unfinished, job_id),
                  popped |-> TRUE,
                  calls |-> IF succ
                            THEN <<statusCall, [method |-> "fetch_result",
                                                id |-> job_id, ok |-> fetch_ok]>>
                            ELSE <<statusCall>>]
        ELSE [jobs |-> j1, disk |-> st.disk, unfinished |-> st.unfinished,
              popped |-> FALSE, calls |-> <<statusCall>>]

\* ---------------------------------------------------------------- actions

\* What rglob may yield from `entries`: up to MaxFiles distinct entries, in
\* any order.
Listings(entries) ==
    { l \in UNION { [1..n -> entries] : n \in 0..MaxFiles } :
        \A i, k \in DOMAIN l : i # k => l[i] # l[k] }

\* The number of job ids submit_batch obtains: the supported paths for which
\* submit_job returns.
Accepted(listing, accept) ==
    Cardinality({ i \in DOMAIN listing : is_supported(listing[i]) /\ accept[i] })

\* TranscriptionPipeline(): loads the ledger file; nothing has been called.
Init ==
    /\ disk = Absent
    /\ jobs = load_jobs(disk)
    /\ issued = 0
    /\ pc = "idle"
    /\ unfinished = <<>>
    /\ todo = <<>>
    /\ last = [op |-> "construct", calls |-> <<>>, outcome |-> "return"]
    /\ dropped = {}
    /\ fetched = {}

\* A call of submit_single, its arguments drawn from the given sets.
SubmitSingleOf(medias, languages) ==
    /\ pc = "idle"
    /\ \E media \in medias, language \in languages, t \in Times, accept \in BOOLEAN :
         /\ accept => issued < MaxJobs
         /\ \E r \in { submit_single([jobs |-> jobs, disk |-> disk, issued |-> issued],
                                      media, language, accept, t) } :
                /\ jobs' = r.jobs
                /\ disk' = r.disk
                /\ issued' = r.issued
                /\ last' = [op |-> "submit_single", media |-> media,
                            language |-> language, calls |-> r.calls,
                            outcome |-> IF r.raised THEN "raise" ELSE "return",
                            value |-> r.value]
    /\ UNCHANGED <<pc, unfinished, todo, dropped, fetched>>

\* A call of submit_batch on a directory holding one of `listings`.
SubmitBatchOf(directories, listings, languages) ==
    /\ pc = "idle"
    /\ \E directory \in directories, listing \in listings,
          language \in languages, t \in Times :
         \E accept \in [DOMAIN listing -> BOOLEAN] :
            /\ issued + Accepted(listing, accept) <= MaxJobs
            \* an outcome is drawn only for the paths submitted to the provider
            /\ \A i \in DOMAIN listing : accept[i] \/ is_supported(listing[i])
            /\ \E r \in { submit_batch([jobs |-> jobs, disk |-> disk, issued |-> issued],
                                        directory, listing, language, accept, t) } :
                   /\ jobs' = r.jobs
                   /\ disk' = r.disk
                   /\ issued' = r.issued
                   /\ last' = [op |-> "submit_batch", directory |-> directory,
                               listing |-> listing, language |-> language,
                               calls |-> r.calls, errors |-> r.errors,
                               outcome |-> IF r.raised THEN "raise" ELSE "return",
                               value |-> r.ret]
    /\ UNCHANGED <<pc, unfinished, todo, dropped, fetched>>

\* The submissions of Spec, where the polling is explored: one media file,
\* given alone or found in its directory, and the default language, so that
\* the records differ in what poll reads and writes only.
DefaultMedia == { [dir |-> "media/", stem |-> "a", suffix |-> ".mp4"] }

DefaultEntries == { [stem |-> "a", suffix |-> ".mp4"], [stem |-> "n", suffix |-> ".txt"] }

SubmitSingle == SubmitSingleOf(DefaultMedia, {"en-US"})

DefaultListings == Listings(DefaultEntries)

SubmitBatch == SubmitBatchOf(DirArgs, DefaultListings, {"en-US"})

\* The submissions of SpecSubmit: every argument of the input sets.
SubmitSingleAny == SubmitSingleOf(MediaArgs, Languages)

AllListings == Listings(Entries)

SubmitBatchAny == SubmitBatchOf(DirArgs, AllListings, Languages)

\* poll is called: lines 67-70, up to the first test of the while loop.
PollEnter ==
    /\ pc = "idle"
    /\ LET u == poll_unfinished(jobs)
       IN  IF u = <<>>
           THEN /\ last' = [op |-> "poll", calls |-> <<>>, outcome |-> "return"]
                /\ UNCHANGED <<pc, unfinished, todo>>
           ELSE /\ pc' = "sweep"
                /\ unfinished' = u
                /\ todo' = u
                /\ last' = [op |-> "poll", calls |-> <<>>, outcome |-> "enter"]
    /\ UNCHANGED <<jobs, disk, issued, dropped, fetched>>

\* One iteration of the for loop (lines 72-81) in which job_status returns.
PollJob ==
    /\ pc = "sweep"
    /\ todo # <<>>
    /\ \E status \in StatusReplies, fetch_ok \in BOOLEAN :
         \E r \in { poll_job([jobs |-> jobs, disk |-> disk, unfinished |-> unfinished],
                             Head(todo), status, fetch_ok) } :
             \* an outcome is drawn only where a call was made
             /\ fetch_ok \/ \E k \in DOMAIN r.calls : r.calls[k].method = "fetch_result"
             /\ jobs' = r.jobs
             /\ disk' = r.disk
             /\ unfinished' = r.unfinished
             /\ todo' = Tail(todo)
             /\ dropped' = IF r.popped THEN dropped \cup {Head(todo)} ELSE dropped
             /\ fetched' = IF \E k \in DOMAIN r.calls :
                                  r.calls[k].method = "fetch_result" /\ r.calls[k].ok
                           THEN fetched \cup {Head(todo)} ELSE fetched
             /\ last' = [op |-> "poll", job |-> Head(todo), calls |-> r.calls,
                         outcome |-> "continue"]
    /\ UNCHANGED <<issued, pc>>

\* An iteration in which job_status raises (line 73): nothing catches it,
\* poll ends with the exception.
PollStatusRaises ==
    /\ pc = "sweep"
    /\ todo # <<>>
    /\ pc' = "idle"
    /\ unfinished' = <<>>
    /\ todo' = <<>>
    /\ last' = [op |-> "poll", job |-> Head(todo),
                calls |-> <<[method |-> "job_status", id |-> Head(todo), ok |-> FALSE]>>,
                outcome |-> "raise"]
    /\ UNCHANGED <<jobs, disk, issued, dropped, fetched>>

\* Lines 82-83 without the test: poll sleeps after every sweep, the one that
\* emptied the pending set included.
PollSweepEndAlwaysSleeps ==
    /\ pc = "sweep"
    /\ todo = <<>>
    /\ last' = [op |-> "poll", calls |-> <<>>, outcome |-> "sleep"]
    /\ IF unfinished # <<>>
       THEN todo' = unfinished /\ UNCHANGED <<pc, unfinished>>
       ELSE pc' = "idle" /\ UNCHANGED <<unfinished, todo>>
    /\ UNCHANGED <<jobs, disk, issued, dropped, fetched>>

\* The for loop is over (lines 82-83 and the while test of line 71):
\* sleep and sweep again, or return.
PollSweepEnd ==
    /\ pc = "sweep"
    /\ todo = <<>>
    /\ IF unfinished # <<>>
       THEN /\ todo' = unfinished
            /\ last' = [op |-> "poll", calls |-> <<>>, outcome |-> "sleep"]
            /\ UNCHANGED <<pc, unfinished>>
       ELSE /\ pc' = "idle"
            /\ last' = [op |-> "poll", calls |-> <<>>, outcome |-> "return"]
            /\ UNCHANGED <<unfinished, todo>>
    /\ UNCHANGED <<jobs, disk, issued, dropped, fetched>>

\* The process ends (normally, or killed at any point) and a new pipeline is
\* constructed on the same ledger file (lines 27-34).
Restart ==
    /\ jobs' = load_jobs(disk)
    /\ pc' = "idle"
    /\ unfinished' = <<>>
    /\ todo' = <<>>
    /\ last' = [op |-> "construct", calls |-> <<>>, outcome |-> "return"]
    /\ UNCHANGED <<disk, issued, dropped, fetched>>

Next ==
    \/ SubmitSingle
    \/ SubmitBatch
    \/ PollEnter
    \/ PollJob
    \/ PollStatusRaises
    \/ PollSweepEnd
    \/ Restart

Spec == Init /\ [][Next]_vars

\* The submissions alone, over all the input sets.
NextSubmit ==
    \/ SubmitSingleAny
    \/ SubmitBatchAny
    \/ Restart

SpecSubmit == Init /\ [][NextSubmit]_vars

\* ---------------------------------------------- an existing ledger file

\* Records a ledger file may hold when the pipeline is constructed: written
\* by an earlier run, or by a version of the tool that keeps one more field
\* ("note") on a record.
StoredMetas ==
    { [file |-> "/work/media/a.mp4", submitted |-> 1, language |-> "en-US",
       state |-> "submitted"],
      [file |-> "/work/media/a.mp4", submitted |-> 1, language |-> "en-US",
       state |-> "running", note |-> "kept"],
      [file |-> "/work/media/b.WAV", submitted |-> 1, language |-> "de-DE",
       state |-> "failed", note |-> "kept"] }

\* Number of records of such a file.
StoredLen == 0..2

\* The texts of those files: a JSON object of up to two members, the keys
\* the job ids 1, 2 and the values the records.
StoredTexts ==
    UNION { { [ i \in 1..n |-> <<i, f[i]>> ] : f \in [1..n -> StoredMetas] }
            : n \in StoredLen }

\* The ledger file found by the constructor: none, or one of those texts.
StoredFiles == { Absent } \cup { [exists |-> TRUE, text |-> t] : t \in StoredTexts }

\* TranscriptionPipeline() on an existing ledger file.
InitStored ==
    /\ disk \in StoredFiles
    /\ jobs = load_jobs(disk)
    /\ issued = Len(jobs)
    /\ pc = "idle"
    /\ unfinished = <<>>
    /\ todo = <<>>
    /\ last = [op |-> "construct", calls |-> <<>>, outcome |-> "return"]
    /\ dropped = {}
    /\ fetched = {}

\* Polling and reloading such a ledger.
NextStored ==
    \/ PollEnter
    \/ PollJob
    \/ PollStatusRaises
    \/ PollSweepEnd
    \/ Restart

SpecStored == InitStored /\ [][NextStored]_vars

\* --------------------------------------------------- a poll that is let run

\* Polls of an existing ledger in which no provider call raises and the
\* process is not ended.
NextLive ==
    \/ PollEnter
    \/ PollJob
    \/ PollSweepEnd

\* poll is sequential code: once job_status has returned the iteration is
\* carried out, and time.sleep returns, so the loop keeps going. Both steps
\* change todo or pc.
SpecLive ==
    InitStored /\ [][NextLive]_vars
        /\ WF_<<pc, todo>>(PollJob) /\ WF_<<pc, todo>>(PollSweepEnd)

\* ------------------------------------------------- the save, step by step

\* The file while Path.write_text is at work on it: open(path, "w") has
\* created or truncated it, the first n members of the text have reached it
\* and it has not been closed. Such a file is not a JSON document.
partial_file(text, n) == [exists |-> TRUE, text |-> SubSeq(text, 1, n), torn |-> TRUE]

Torn(file) == "torn" \in DOMAIN file

\* submit_single up to the open() inside _save_jobs: the provider has given
\* an id, the record is in self._jobs and the file has just been truncated.
SaveBegin ==
    /\ pc = "idle"
    /\ issued < MaxJobs
    /\ \E media \in MediaArgs, language \in Languages, t \in Times :
         \E r \in { submit_single([jobs |-> jobs, disk |-> disk, issued |-> issued],
                                  media, language, TRUE, t) } :
            /\ jobs' = r.jobs
            /\ issued' = r.issued
            /\ disk' = partial_file(r.disk.text, 0)
            /\ last' = [op |-> "submit_single", media |-> media, language |-> language,
                        calls |-> r.calls, outcome |-> "saving", value |-> r.value]
    /\ pc' = "saving"
    /\ UNCHANGED <<unfinished, todo, dropped, fetched>>

\* More of the text reaches the file.
SaveWrite ==
    /\ pc = "saving"
    /\ \E n \in (Len(disk.text) + 1)..Len(json_dumps(jobs)) :
         disk' = partial_file(json_dumps(jobs), n)
    /\ UNCHANGED <<jobs, issued, pc, unfinished, todo, last, dropped, fetched>>

\* The rest is written and the file closed; submit_single returns.
SaveClose ==
    /\ pc = "saving"
    /\ disk' = save_jobs(jobs)
    /\ pc' = "idle"
    /\ last' = [last EXCEPT !.outcome = "return"]
    /\ UNCHANGED <<jobs, issued, unfinished, todo, dropped, fetched>>

\* The process is ended at any point and a new pipeline is constructed on
\* the file, or another process constructs one: json.loads raises on a file
\* that is not a JSON document and no pipeline comes to be.
Reconstruct ==
    /\ IF Torn(disk)
       THEN /\ jobs' = <<>>
            /\ pc' = "broken"
            /\ last' = [op |-> "construct", calls |-> <<>>, outcome |-> "raise"]
       ELSE /\ jobs' = load_jobs(disk)
            /\ pc' = "idle"
            /\ last' = [op |-> "construct", calls |-> <<>>, outcome |-> "return"]
    /\ UNCHANGED <<disk, issued, unfinished, todo, dropped, fetched>>

NextSave ==
    \/ SaveBegin
    \/ SaveWrite
    \/ SaveClose
    \/ Reconstruct

SpecSave == InitStored /\ [][NextSave]_vars

\* ------------------------------------------------------------------ claims

\* The members of a sequence.
Range(q) == { q[i] : i \in DOMAIN q }

\* The suffixes the specification calls the supported media set.
MediaSet == { ".mp4", ".wav", ".mp3", ".mkv", ".flac" }

\* A path of a batch has a supported extension.
HasMediaSuffix(path) == Lower(path.suffix) \in MediaSet

\* The paths a batch found under its directory.
BatchPaths(op) == rglob(ResolveDir(op.directory), op.listing)

\* C1: submit_batch isolates submission failures. Whatever subset of the
\* supported files the provider rejects, the call returns normally, has
\* called submit_job once for every supported file in directory order,
\* returns exactly the ids the provider gave for the accepted files, in
\* order, and the ledger gains exactly one record per accepted file, for
\* that file, and none for a rejected file.
C1_BatchIsolatesFailures ==
    [][ last'.op = "submit_batch" =>
          LET op == last'
              supported == SelectSeq(BatchPaths(op), HasMediaSuffix)
              okCalls == SelectSeq(op.calls, LAMBDA c : c.ok)
              badCalls == SelectSeq(op.calls, LAMBDA c : ~c.ok)
          IN  /\ op.outcome = "return"
              /\ [k \in DOMAIN op.calls |-> op.calls[k].path] = supported
              /\ op.value = [k \in DOMAIN okCalls |-> okCalls[k].id]
              /\ Len(op.value) = Len(okCalls)
              /\ Range(op.value) \subseteq Keys(jobs')
              /\ Range(op.value) \cap Keys(jobs) = {}
              /\ Keys(jobs') = Keys(jobs) \cup Range(op.value)
              /\ Len(jobs') = Len(jobs) + Len(okCalls)
              /\ \A k \in DOMAIN okCalls :
                   Meta(jobs', okCalls[k].id).file = Str(okCalls[k].path)
              /\ op.errors = [k \in DOMAIN badCalls |-> badCalls[k].path]
              /\ \A j \in Keys(jobs) : Meta(jobs', j) = Meta(jobs, j)
      ]_vars

\* C1 happens: a batch in which the provider rejected a file and accepted a
\* later one.
C1_Witness ==
    /\ last.op = "submit_batch"
    /\ \E k, m \in DOMAIN last.calls : k < m /\ ~last.calls[k].ok /\ last.calls[m].ok
    /\ Len(last.value) = 1

\* C9: submit_batch passes no unsupported file to the provider. Every
\* provider call of a batch is a submit_job for a path under the directory
\* whose lower-cased suffix is in the media set; the unsupported files give
\* no ledger record and no error.
C9_UnsupportedNeverSubmitted ==
    [][ last'.op = "submit_batch" =>
          LET op == last'
              newIds == Keys(jobs') \ Keys(jobs)
          IN  /\ \A k \in DOMAIN op.calls :
                   /\ op.calls[k].method = "submit_job"
                   /\ op.calls[k].path \in Range(BatchPaths(op))
                   /\ Lower(op.calls[k].path.suffix) \in MediaSet
              /\ \A j \in newIds :
                   \E k \in DOMAIN BatchPaths(op) :
                      /\ HasMediaSuffix(BatchPaths(op)[k])
                      /\ Meta(jobs', j).file = Str(BatchPaths(op)[k])
              /\ \A k \in DOMAIN op.errors : HasMediaSuffix(op.errors[k])
              /\ op.outcome = "return"
      ]_vars

\* C9 happens: a batch over three files, one of them unsupported, that
\* recorded two jobs.
C9_Witness ==
    /\ last.op = "submit_batch"
    /\ Len(last.listing) = 3
    /\ \E k \in DOMAIN last.listing : ~HasMediaSuffix(last.listing[k])
    /\ Len(last.value) = 2
    /\ Len(jobs) = 2

\* C10: a provider failure inside submit_single reaches the caller and
\* leaves the ledger as it was, in memory and in the file.
C10_SingleFailurePropagates ==
    [][ (last'.op = "submit_single" /\ \E k \in DOMAIN last'.calls : ~last'.calls[k].ok) =>
          /\ last'.outcome = "raise"
          /\ jobs' = jobs
          /\ disk' = disk
      ]_vars

\* C10 happens: submit_single raised on a ledger that holds a record.
C10_Witness ==
    /\ last.op = "submit_single"
    /\ last.outcome = "raise"
    /\ jobs # <<>>
    /\ disk = save_jobs(jobs)

\* ------------------------------------------------------- claims about poll

\* What a stored or reported state string means, whatever its casing.
IsSucceeded(state) == Lower(state) = "succeeded"

IsFailed(state) == Lower(state) = "failed"

IsTerminal(state) == IsSucceeded(state) \/ IsFailed(state)

\* The five values the data model gives the state field.
NormalizedStates == { "submitted", "queued", "running", "succeeded", "failed" }

HasResult(l, j) == "result" \in DOMAIN Meta(l, j)

\* The step is one iteration of poll's loop in which job_status returned.
PolledJob(op) == op.op = "poll" /\ op.outcome = "continue"

\* The state that iteration observed.
Observed(op) == DictGet(op.calls[1].reply, "state", "unknown")

\* The iteration called fetch_result and it raised / it was called at all.
FetchRaised(op) ==
    \E k \in DOMAIN op.calls : op.calls[k].method = "fetch_result" /\ ~op.calls[k].ok

FetchCalled(op) == \E k \in DOMAIN op.calls : op.calls[k].method = "fetch_result"

\* C2: once a poll has recorded a job as terminal and dropped it from its
\* pending set, no step of any later poll calls job_status or fetch_result
\* for that job.
C2_TerminalNeverPolledAgain ==
    [][ \A j \in dropped :
          \A k \in DOMAIN last'.calls :
             last'.calls[k].method \in { "job_status", "fetch_result" }
                => last'.calls[k].id # j
      ]_vars

\* C3: once a record's state is succeeded or failed, no step changes it to
\* another value.
C3_TerminalStateNeverChanges ==
    [][ \A j \in Keys(jobs) :
          IsTerminal(Meta(jobs, j).state)
             => /\ j \in Keys(jobs')
                /\ Lower(Meta(jobs', j).state) = Lower(Meta(jobs, j).state)
      ]_vars

\* C4: when fetch_result raises for a job just observed as succeeded, poll
\* goes on: the exception does not end it, the record is succeeded and has
\* no result field, the job has left the pending set, the ledger is saved,
\* and the sweep moves to the next pending job.
C4_DownloadFailureIsolated ==
    [][ (PolledJob(last') /\ FetchRaised(last')) =>
          /\ pc' = "sweep"
          /\ IsSucceeded(Meta(jobs', last'.job).state)
          /\ ~HasResult(jobs', last'.job)
          /\ last'.job \notin Range(unfinished')
          /\ disk' = save_jobs(jobs')
          /\ todo' = Tail(todo)
      ]_vars

\* C5: in every reachable ledger a record has a result path exactly when
\* its state is succeeded and fetch_result has returned for it.
C5_ResultIffSucceededAndFetched ==
    \A j \in Keys(jobs) :
       HasResult(jobs, j) <=> (IsSucceeded(Meta(jobs, j).state) /\ j \in fetched)

\* C6: a poll called when every record is terminal returns at once: no
\* sweep is started (so no provider call and no sleep) and the ledger is
\* unchanged in memory and in the file.
C6_EmptyPollReturnsAtOnce ==
    [][ (pc = "idle" /\ last'.op = "poll"
           /\ \A j \in Keys(jobs) : IsTerminal(Meta(jobs, j).state)) =>
          /\ pc' = "idle"
          /\ last'.outcome = "return"
          /\ last'.calls = <<>>
          /\ jobs' = jobs
          /\ disk' = disk
      ]_vars

\* C7: every record's state is one of the five normalized values.
C7_StatesAreNormalized ==
    \A j \in Keys(jobs) : Meta(jobs, j).state \in NormalizedStates

\* C8: when poll observes a job as failed it does not call fetch_result,
\* the record is failed and has no result path, the job has left the
\* pending set and the ledger is saved.
C8_FailedJobNotDownloaded ==
    [][ (PolledJob(last') /\ IsFailed(Observed(last'))) =>
          /\ ~FetchCalled(last')
          /\ IsFailed(Meta(jobs', last'.job).state)
          /\ ~HasResult(jobs', last'.job)
          /\ last'.job \notin Range(unfinished')
          /\ disk' = save_jobs(jobs')
      ]_vars

\* ------------------------------------------------ claims about the ledger

\* The absolute canonical form of a path argument, as a string.
AbsolutePath(p) == IF IsAbsolute(p.dir) THEN Str(p) ELSE Cwd \o Str(p)

\* The step is a submit_single in which submit_job returned.
SubmittedSingle(op) ==
    op.op = "submit_single" /\ \E k \in DOMAIN op.calls : op.calls[k].ok

\* C11: when submit_job returns the id j, submit_single returns j, has made
\* exactly one provider call, and the ledger in memory and the ledger read
\* back from the file hold a record keyed j with state submitted, the
\* absolute source path and the language given.
C11_SubmitSingleRecordsJob ==
    [][ SubmittedSingle(last') =>
          LET op == last'
              j == op.calls[1].id
              stored == load_jobs(disk')
          IN  /\ op.outcome = "return"
              /\ op.value = j
              /\ Len(op.calls) = 1
              /\ op.calls[1].method = "submit_job"
              /\ j \in Keys(jobs')
              /\ Meta(jobs', j).state = "submitted"
              /\ Meta(jobs', j).file = AbsolutePath(op.media)
              /\ Meta(jobs', j).language = op.language
              /\ j \in Keys(stored)
              /\ Meta(stored, j) = Meta(jobs', j)
      ]_vars

\* C11 happens: a second submission, of a relative path with a language
\* other than the default, returned its id.
C11_Witness ==
    /\ SubmittedSingle(last)
    /\ last.language = "de-DE"
    /\ ~IsAbsolute(last.media.dir)
    /\ Len(jobs) = 2
    /\ last.value = 2

\* C12: no dedup and no clobbering. A submit_single in which submit_job
\* returned appends exactly one record, under an id the ledger did not hold,
\* and leaves every earlier record as it was, in memory and in the file,
\* even when the same file was submitted before; the ledger holds as many
\* records as submissions have succeeded.
C12_NoDedupNoClobber ==
    [][ SubmittedSingle(last') =>
          LET j == last'.value
              before == load_jobs(disk)
              stored == load_jobs(disk')
          IN  /\ j \notin Keys(jobs)
              /\ Len(jobs') = Len(jobs) + 1
              /\ SubSeq(jobs', 1, Len(jobs)) = jobs
              /\ jobs'[Len(jobs')].id = j
              /\ Len(stored) = Len(before) + 1
              /\ SubSeq(stored, 1, Len(before)) = before
              /\ Cardinality(Keys(jobs')) = Len(jobs')
              /\ Len(jobs') = issued'
      ]_vars

\* C12 happens: the same file was submitted twice and the ledger holds two
\* records for it under different ids.
C12_Witness ==
    /\ SubmittedSingle(last)
    /\ Len(jobs) = 2
    /\ jobs[1].meta.file = jobs[2].meta.file
    /\ jobs[1].id # jobs[2].id
    /\ disk = save_jobs(jobs)

\* C13: records are never deleted. No step of submit_single, submit_batch
\* or poll, failed provider calls included, and no reload of the ledger
\* takes a job id out of the ledger in memory or out of the ledger file.
C13_RecordsNeverDeleted ==
    [][ /\ Keys(jobs) \subseteq Keys(jobs')
        /\ Keys(load_jobs(disk)) \subseteq Keys(load_jobs(disk'))
      ]_vars

\* C13 happens: fetch_result raised inside poll on a ledger of two records,
\* and both are still in memory and in the file.
C13_Witness ==
    /\ PolledJob(last)
    /\ FetchRaised(last)
    /\ Cardinality(Keys(jobs)) = 2
    /\ Keys(load_jobs(disk)) = Keys(jobs)

StatusRaised(op) ==
    /\ op.op = "poll"
    /\ \E k \in DOMAIN op.calls : op.calls[k].method = "job_status" /\ ~op.calls[k].ok

\* C15: every state update of poll is persisted at once. After an iteration
\* has applied a job_status reply to a record, terminal or not, the ledger
\* file holds that record with its new state, before the next job is
\* queried.
C15_EveryUpdatePersisted ==
    [][ PolledJob(last') =>
          LET stored == load_jobs(disk')
          IN  /\ last'.job \in Keys(stored)
              /\ Meta(stored, last'.job).state = Meta(jobs', last'.job).state
      ]_vars

\* C16: a job_status failure does not end the sweep. The iteration in which
\* job_status raised leaves poll inside its loop with the pending set as it
\* was, the remaining jobs of the sweep still to be queried, and the states
\* recorded so far in the ledger file.
C16_StatusFailureIsolated ==
    [][ StatusRaised(last') =>
          /\ pc' = "sweep"
          /\ last'.outcome # "raise"
          /\ unfinished' = unfinished
          /\ todo' = Tail(todo)
          /\ jobs' = jobs
      ]_vars

\* The jobs a ledger records as terminal.
TerminalIn(l) == { j \in Keys(l) : IsTerminal(Meta(l, j).state) }

\* C17: restart safety. The ledger file records a job as terminal only when
\* poll has finished that job's iteration, download step included; and the
\* first poll of a pipeline constructed from the file takes as its pending
\* set exactly the jobs the file does not record as terminal, so no
\* finished job is queried again and no unfinished job is left out.
C17_RestartSafe ==
    [][ /\ TerminalIn(load_jobs(disk')) \subseteq dropped'
        /\ (last.op = "construct" /\ last'.op = "poll") =>
              /\ Range(unfinished') = Keys(jobs) \ TerminalIn(load_jobs(disk))
              /\ pc' = "sweep" <=> unfinished' # <<>>
      ]_vars

\* The iteration of poll in which the provider reports job j as succeeded
\* or failed.
TerminalReply(j) ==
    /\ PollJob
    /\ last'.job = j
    /\ IsTerminal(Observed(last'))

\* The ids the provider can have issued.
JobIds == 1..MaxJobs

\* poll has returned.
PollReturned == pc = "idle" /\ last.op = "poll" /\ last.outcome = "return"

\* C18: poll returns only when its pending set is empty, and a job leaves
\* the pending set only in an iteration that observed it as succeeded or
\* failed, so poll does not return while a job keeps reporting another
\* status; and if no provider call raises and the provider eventually
\* reports succeeded or failed for every job it is asked about, a poll that
\* has started its loop eventually returns, with every record terminal.
C18_PollTermination ==
    /\ [] /\ PollReturned => unfinished = <<>>
          /\ PolledJob(last) =>
                /\ pc = "sweep"
                /\ ~IsTerminal(Observed(last)) => last.job \in Range(unfinished)
    /\ (\A j \in JobIds : SF_todo(TerminalReply(j)))
          => ((pc = "sweep") ~> (PollReturned /\ TerminalIn(jobs) = Keys(jobs)))

\* C18 happens: a poll over two jobs has slept, seen both jobs terminal and
\* returned.
C18_Witness ==
    /\ PollReturned
    /\ Cardinality(dropped) = 2
    /\ TerminalIn(jobs) = Keys(jobs)
    /\ unfinished = <<>>

\* The keys of a ledger in insertion order.
KeySeq(l) == [ i \in DOMAIN l |-> l[i].id ]

\* q lists some of the ledger's keys, each once, in insertion order.
InLedgerOrder(q, l) == q = SelectSeq(KeySeq(l), LAMBDA k : k \in Range(q))

\* The step called job_status.
QueryStep(op) ==
    op.op = "poll" /\ \E k \in DOMAIN op.calls : op.calls[k].method = "job_status"

\* The step starts a sweep: poll enters its loop, or has slept.
SweepStart(op) == op.op = "poll" /\ op.outcome \in { "enter", "sleep" }

\* C19: the sweep protocol. A sweep starts with every pending job still to
\* be queried, in ledger insertion order; each job_status call is for the
\* first job not yet queried in the sweep, which is then done with for this
\* sweep, so a sweep queries each job at most once and comes to its end
\* only when it has queried them all; at the end of the sweep poll sleeps,
\* once, if and only if a job is still pending, and returns without
\* sleeping if none is.
C19_SweepProtocol ==
    [][ /\ SweepStart(last') =>
              /\ pc' = "sweep"
              /\ todo' = unfinished'
              /\ todo' # <<>>
              /\ InLedgerOrder(todo', jobs')
        /\ QueryStep(last') =>
              /\ pc = "sweep" /\ todo # <<>>
              /\ last'.calls[1].id = Head(todo)
              /\ last'.job = Head(todo)
              /\ pc' = "sweep" => todo' = Tail(todo)
        /\ (last'.op = "poll" /\ last'.outcome = "sleep") =>
              (pc = "sweep" /\ todo = <<>> /\ unfinished # <<>>)
        /\ (pc = "sweep" /\ last'.op = "poll" /\ last'.outcome = "return") =>
              (todo = <<>> /\ unfinished = <<>>)
        /\ (pc = "sweep" /\ todo = <<>> /\ last'.op = "poll") =>
              /\ last'.calls = <<>>
              /\ last'.outcome = (IF unfinished # <<>> THEN "sleep" ELSE "return")
              /\ pc' = (IF unfinished # <<>> THEN "sweep" ELSE "idle")
      ]_vars

\* C19 happens: a sweep over two jobs queried the first, which was terminal,
\* then the second, which was not; poll has slept and is about to query the
\* second again.
C19_Witness ==
    /\ last.op = "poll"
    /\ last.outcome = "sleep"
    /\ Len(jobs) = 2
    /\ jobs[1].id \in dropped
    /\ todo = <<jobs[2].id>>

\* The fields poll and the download step may write.
PollFields == { "state", "result" }

\* The result field of a record differs between m and n.
ResultChanged(m, n) ==
    \/ ("result" \in DOMAIN m) # ("result" \in DOMAIN n)
    \/ ("result" \in DOMAIN m \cap DOMAIN n) /\ m.result # n.result

\* C20: the frame of poll. A step of poll adds no record, removes none and
\* keeps their order; it changes nothing on a record that is terminal; on
\* the other records it changes at most the state, and the result, which
\* only a download that returned for that job sets; file, submitted,
\* language and every unknown field stay as they were.
C20_PollFrame ==
    [][ last'.op = "poll" =>
          /\ KeySeq(jobs') = KeySeq(jobs)
          /\ \A j \in Keys(jobs) :
                LET m == Meta(jobs, j)
                    n == Meta(jobs', j)
                IN  /\ IsTerminal(m.state) => n = m
                    /\ DOMAIN n \ PollFields = DOMAIN m \ PollFields
                    /\ \A f \in DOMAIN m \ PollFields : n[f] = m[f]
                    /\ ResultChanged(m, n) =>
                          /\ PolledJob(last') /\ last'.job = j
                          /\ FetchCalled(last') /\ ~FetchRaised(last')
      ]_vars

\* --------------------------------------------- claims about saving

\* The step ends a call of submit_single, submit_batch or poll.
OperationEnds(op) ==
    /\ op.op \in { "submit_single", "submit_batch", "poll" }
    /\ op.outcome \in { "return", "raise" }

\* C21: saving is the last step of every mutating operation. When
\* submit_single, submit_batch or poll returns, the ledger read from the
\* file equals the ledger in memory; and an operation that ends, by return
\* or by exception, has mutated no record after its last save, so the two
\* are equal then as well.
C21_SaveIsLastStep ==
    [][ OperationEnds(last') => load_jobs(disk') = jobs' ]_vars

\* The ledger the file held before the save in progress: submit_single's
\* save adds the last record.
Previous(l) == SubSeq(l, 1, Len(l) - 1)

\* C22: the save is atomic. Whenever the ledger file exists it is a
\* complete ledger, so whoever reads it, a concurrent reader or a pipeline
\* constructed after a crash, gets the ledger in memory or, while a save is
\* in progress, the ledger as it was before that save.
C22_AtomicSave ==
    disk.exists =>
       /\ ~Torn(disk)
       /\ \/ load_jobs(disk) = jobs
          \/ pc = "saving" /\ load_jobs(disk) = Previous(jobs)

====
